---------------------------- MODULE Spec2Model ----------------------------
(***************************************************************************)
(* KDFoundation Win32PlatformEventLoop: the wait/wake cycle, the notifier  *)
(* registry (m_notifiers) and its WSAAsyncSelect subscription, and the     *)
(* dispatch of socket readiness messages to the postman.                   *)
(*                                                                         *)
(* The loop thread runs waitForEvents, registerNotifier and                *)
(* unregisterNotifier; any thread may run wakeUp; the operating system     *)
(* posts messages into the thread's message queue.                         *)
(***************************************************************************)
EXTENDS Integers, Sequences, FiniteSets, TLC

(***************************************************************************)
(* Bounds of the model.                                                    *)
(***************************************************************************)
\* the sockets are 0..MaxFd; -1 is the invalid descriptor
MaxFd == 1
\* distinct FileDescriptorNotifier objects per (descriptor, type)
MaxNotifierId == 2
\* messages the message queue holds at once
MaxQueue == 3
\* registerNotifier / unregisterNotifier calls and posted messages over a run
MaxEvents == 4

(***************************************************************************)
(* Win32 values the code compares against.                                 *)
(***************************************************************************)
WAIT_OBJECT_0 == 0
WAIT_TIMEOUT == 258

WM_QUIT == "WM_QUIT"
WM_TIMER == "WM_TIMER"
WM_KD_SOCKETEVENT == "WM_KD_SOCKETEVENT"

\* FileDescriptorNotifier::NotificationType, used as the index into NotifierSet::events
Read == 0
Write == 1
Exception == 2
NotificationTypes == {Read, Write, Exception}

FD_EVENTS == {"FD_READ", "FD_WRITE", "FD_OOB", "FD_ACCEPT", "FD_CONNECT", "FD_CLOSE"}

Sockets == 0 .. MaxFd

\* The null FileDescriptorNotifier pointer.
nullptr == [id |-> 0, fd |-> 0, type |-> 0]

\* The FileDescriptorNotifier objects of the application: an object is its
\* identity together with the descriptor and type it was constructed with.
Notifiers ==
    {[id |-> i, fd |-> f, type |-> t] : i \in 1 .. MaxNotifierId, f \in Sockets, t \in NotificationTypes}
        \cup {[id |-> 1, fd |-> -1, type |-> Read]}

\* A default-constructed NotifierSet: events[3] all null.
EmptyNotifierSet == [t \in NotificationTypes |-> nullptr]

\* NotifierSet::isEmpty
isEmpty(notifierSet) == \A t \in NotificationTypes : notifierSet[t] = nullptr

\* std::map::operator[]: the map with a default-constructed value inserted
\* under key when the key is absent.
MapIndex(map, key) ==
    IF key \in DOMAIN map
    THEN map
    ELSE [k \in DOMAIN map \cup {key} |-> IF k = key THEN EmptyNotifierSet ELSE map[k]]

\* std::map::erase(key)
MapErase(map, key) == [k \in DOMAIN map \ {key} |-> map[k]]

\* The empty std::map.
EmptyMap == [k \in {} |-> EmptyNotifierSet]

VARIABLES
    m_wakeUpEvent,  \* TRUE when CreateEvent returned a handle, FALSE when it is null
    signaled,       \* state of the manual-reset wake up event
    m_postman,      \* TRUE when a postman is set
    m_notifiers,    \* std::map<int, NotifierSet>
    subscription,   \* per socket, the events WSAAsyncSelect last subscribed successfully
    msgQueue,       \* the thread's message queue
    pc,             \* where the loop thread is: "idle", "wait", "waited", "aborted"
    timeout,        \* argument of the waitForEvents call in progress
    waitRet,        \* what MsgWaitForMultipleObjects returned in the call in progress
    queueAtCall,    \* the message queue as the waitForEvents call in progress, or just returned,
                    \* found it (empty once the loop thread calls something else)
    dispatched,     \* the messages that waitForEvents call removed from the queue
    handled,        \* the functions that call passed the removed message to, in order
    accepted,       \* the notifiers registerNotifier has returned true for so far
    released,       \* the notifiers unregisterNotifier has returned true for and
                    \* registerNotifier has not accepted since
    lastCall,       \* the registerNotifier / unregisterNotifier call the loop thread last returned
                    \* from, and what it did, until the thread calls something else
    delivered,      \* the notifiers handed to Postman::deliverEvent, in order
    posted,         \* messages posted so far
    calls,          \* registerNotifier / unregisterNotifier calls so far
    m_windowClasses, \* std::set<std::wstring> of Win32GuiPlatformIntegration
    osClasses,      \* the window classes of this module that the OS has registered
    succeeded,      \* the class names RegisterClassEx has succeeded for since the
                    \* tracked set was last cleared
    lastGuiCall     \* the registerWindowClass / unregisterWindowClasses call last
                    \* returned from, and what it did

\* The state of the Win32GuiPlatformIntegration object and of the OS class table.
guiVars == <<m_windowClasses, osClasses, succeeded, lastGuiCall>>

vars ==
    <<m_wakeUpEvent, signaled, m_postman, m_notifiers, subscription, msgQueue, pc,
      timeout, waitRet, queueAtCall, dispatched, handled, accepted, released, lastCall, delivered, posted, calls,
      guiVars>>

\* A call: the operation, its argument, whether operator[] inserted a record for
\* the descriptor, the registerWithWSAAsyncSelect calls made, the value returned.
Returned(op, notifier, inserted, selects, ret) ==
    [op |-> op, notifier |-> notifier, inserted |-> inserted, selects |-> selects, ret |-> ret]

NoCall == Returned("none", nullptr, FALSE, <<>>, FALSE)

\* No waitForEvents call in progress: its locals do not exist.
NoWaitRet == -1

\* A call of Win32GuiPlatformIntegration: the operation, the value returned
\* (FALSE for a void function), the class name passed, the class names the call
\* passed to the OS (to RegisterClassEx or to UnregisterClass).
GuiReturned(op, ret, className, osCalls) ==
    [op |-> op, ret |-> ret, className |-> className, osCalls |-> osCalls]

\* No class name: the call takes none.
NoClassName == 0

NoGuiCall == GuiReturned("none", FALSE, NoClassName, {})

(***************************************************************************)
(* Construction.  CreateEvent may fail: the loop is then constructed with  *)
(* a null m_wakeUpEvent.                                                   *)
(***************************************************************************)
Init ==
    /\ m_wakeUpEvent \in BOOLEAN
    /\ signaled = FALSE
    /\ m_postman = FALSE
    /\ m_notifiers = EmptyMap
    /\ subscription = [s \in Sockets |-> {}]
    /\ msgQueue = <<>>
    /\ pc = "idle"
    /\ timeout = 0
    /\ waitRet = NoWaitRet
    /\ queueAtCall = <<>>
    /\ dispatched = <<>>
    /\ handled = <<>>
    /\ accepted = {}
    /\ released = {}
    /\ lastCall = NoCall
    /\ delivered = <<>>
    /\ posted = 0
    /\ calls = 0
    /\ m_windowClasses = {}
    /\ osClasses = {}
    /\ succeeded = {}
    /\ lastGuiCall = NoGuiCall


(***************************************************************************)
(* Win32PlatformEventLoop::registerWithWSAAsyncSelect                      *)
(***************************************************************************)
\* Write without FD_CONNECT.
typeToWsaEvents_NoConnect(type) ==
    CASE type = Read -> {"FD_READ", "FD_CLOSE", "FD_ACCEPT"}
      [] type = Write -> {"FD_WRITE"}
      [] type = Exception -> {"FD_OOB"}
      [] OTHER -> {}

typeToWsaEvents(type) ==
    CASE type = Read -> {"FD_READ", "FD_CLOSE", "FD_ACCEPT"}
      [] type = Write -> {"FD_WRITE", "FD_CONNECT"}
      [] type = Exception -> {"FD_OOB"}
      [] OTHER -> {}

\* The events or-ed together over the occupied slots; empty when no slot is.
eventsToSubscribe(notifiers) ==
    UNION {typeToWsaEvents(type) : type \in {t \in NotificationTypes : notifiers[t] # nullptr}}

\* WSAAsyncSelect(fd, m_msgWindow, WM_KD_SOCKETEVENT, events): when it succeeds
\* (ok) the socket's subscription is replaced by events, when it fails the
\* subscription stays what it was.
WSAAsyncSelect(sub, fd, events, ok) ==
    IF ok /\ fd \in DOMAIN sub THEN [sub EXCEPT ![fd] = events] ELSE sub

\* The record of one registerWithWSAAsyncSelect call: what it asked for and
\* what it returned.
registerWithWSAAsyncSelect(fd, notifiers, ok) ==
    [fd |-> fd, events |-> eventsToSubscribe(notifiers), result |-> ok]

(***************************************************************************)
(* Win32PlatformEventLoop::registerNotifier.  ok and okRestore are what    *)
(* the WSAAsyncSelect calls of the registration and of the restoration     *)
(* return.                                                                 *)
(***************************************************************************)
\* if (!notifier) and if (notifier->fileDescriptor() < 0)
\* Only the null pointer is refused.
InvalidNotifier_NullOnly(notifier) == notifier = nullptr

InvalidNotifier(notifier) == notifier = nullptr \/ notifier.fd < 0

\* The check left out: a second notifier takes the slot over.
AlreadyRegistered_Never(notifierSet, eventTypeIdx) == FALSE

\* "Check if already registered for this type"
AlreadyRegistered(notifierSet, eventTypeIdx) == notifierSet[eventTypeIdx] # nullptr

\* The clean up left out: the restored record stays in the map when empty.
RestoreBackup_KeepsRecord(map, fd, backup) == [map EXCEPT ![fd] = backup]

\* "registration failed. Restore previous state and clean up if needed"
RestoreBackup(map, fd, backup) ==
    IF isEmpty(backup) THEN MapErase(map, fd) ELSE [map EXCEPT ![fd] = backup]

\* The loop thread has left waitForEvents for another operation.
NotInWaitForEvents ==
    /\ queueAtCall' = <<>>
    /\ dispatched' = <<>>
    /\ handled' = <<>>

registerNotifier(notifier, ok, okRestore) ==
    /\ pc = "idle"
    /\ calls + posted < MaxEvents
    /\ calls' = calls + 1
    /\ IF InvalidNotifier(notifier)
       THEN /\ lastCall' = Returned("register", notifier, FALSE, <<>>, FALSE)
            /\ UNCHANGED <<m_notifiers, subscription, accepted, released>>
       ELSE LET fd == notifier.fd
                map == MapIndex(m_notifiers, fd)
                backup == map[fd]
                eventTypeIdx == notifier.type
                notifierSet == [backup EXCEPT ![eventTypeIdx] = notifier]
                inserted == fd \notin DOMAIN m_notifiers
                registered == registerWithWSAAsyncSelect(fd, notifierSet, ok)
                restored == registerWithWSAAsyncSelect(fd, backup, okRestore)
            IN  IF AlreadyRegistered(backup, eventTypeIdx)
                THEN /\ m_notifiers' = map
                     /\ lastCall' = Returned("register", notifier, inserted, <<>>, FALSE)
                     /\ UNCHANGED <<subscription, accepted, released>>
                ELSE IF registered.result
                THEN /\ m_notifiers' = [map EXCEPT ![fd] = notifierSet]
                     /\ subscription' = WSAAsyncSelect(subscription, fd, registered.events, TRUE)
                     /\ accepted' = accepted \cup {notifier}
                     /\ released' = released \ {notifier}
                     /\ lastCall' = Returned("register", notifier, inserted, <<registered>>, TRUE)
                ELSE /\ m_notifiers' = RestoreBackup(map, fd, backup)
                     /\ subscription' = WSAAsyncSelect(subscription, fd, restored.events, restored.result)
                     /\ lastCall' = Returned("register", notifier, inserted, <<registered, restored>>, FALSE)
                     /\ UNCHANGED <<accepted, released>>
    /\ NotInWaitForEvents
    /\ UNCHANGED <<m_wakeUpEvent, signaled, m_postman, msgQueue, pc, timeout, waitRet, delivered, posted>>
    /\ UNCHANGED guiVars

(***************************************************************************)
(* Win32PlatformEventLoop::unregisterNotifier                              *)
(***************************************************************************)
\* if (!notifierSet.events[eventTypeIdx])
SlotEmpty(notifierSet, eventTypeIdx) == notifierSet[eventTypeIdx] = nullptr

\* The slot left as it is.
ClearSlot_Keeps(notifierSet, eventTypeIdx) == notifierSet

\* notifierSet.events[eventTypeIdx] = nullptr
ClearSlot(notifierSet, eventTypeIdx) == [notifierSet EXCEPT ![eventTypeIdx] = nullptr]

\* The record is kept when it has become empty.
EraseIfEmpty_Never(map, fd, notifierSet) == [map EXCEPT ![fd] = notifierSet]

\* if (notifierSet.isEmpty()) m_notifiers.erase(fd)
EraseIfEmpty(map, fd, notifierSet) ==
    IF isEmpty(notifierSet) THEN MapErase(map, fd) ELSE [map EXCEPT ![fd] = notifierSet]

unregisterNotifier(notifier, ok) ==
    /\ pc = "idle"
    /\ calls + posted < MaxEvents
    /\ calls' = calls + 1
    /\ IF notifier = nullptr
       THEN /\ lastCall' = Returned("unregister", notifier, FALSE, <<>>, FALSE)
            /\ UNCHANGED <<m_notifiers, subscription, released>>
       ELSE LET fd == notifier.fd
                eventTypeIdx == notifier.type
                map == MapIndex(m_notifiers, fd)
                notifierSet == ClearSlot(map[fd], eventTypeIdx)
                inserted == fd \notin DOMAIN m_notifiers
                resubscribed == registerWithWSAAsyncSelect(fd, notifierSet, ok)
            IN  IF SlotEmpty(map[fd], eventTypeIdx)
                THEN /\ m_notifiers' = map
                     /\ lastCall' = Returned("unregister", notifier, inserted, <<>>, FALSE)
                     /\ UNCHANGED <<subscription, released>>
                ELSE /\ m_notifiers' = EraseIfEmpty(map, fd, notifierSet)
                     /\ subscription' = WSAAsyncSelect(subscription, fd, resubscribed.events, resubscribed.result)
                     /\ released' = released \cup {notifier}
                     /\ lastCall' = Returned("unregister", notifier, inserted, <<resubscribed>>, TRUE)
    /\ NotInWaitForEvents
    /\ UNCHANGED <<m_wakeUpEvent, signaled, m_postman, msgQueue, pc, timeout, waitRet, accepted, delivered, posted>>
    /\ UNCHANGED guiVars

(***************************************************************************)
(* AbstractPlatformEventLoop::setPostman                                   *)
(***************************************************************************)
setPostman(postman) ==
    /\ pc = "idle"
    /\ m_postman' = postman
    /\ lastCall' = NoCall
    /\ NotInWaitForEvents
    /\ UNCHANGED <<m_wakeUpEvent, signaled, m_notifiers, subscription, msgQueue, pc, timeout,
                   waitRet, accepted, released, delivered, posted, calls>>
    /\ UNCHANGED guiVars

(***************************************************************************)
(* Win32PlatformEventLoop::handleSocketMessage                             *)
(***************************************************************************)
\* The slot the switch on op reads, or NoSlot when no case matches.
NoSlot == 3

\* FD_CONNECT moved to the first group of cases.
SlotOfEvent_ConnectIsRead(op) ==
    CASE op \in {"FD_READ", "FD_CLOSE", "FD_ACCEPT", "FD_CONNECT"} -> Read
      [] op = "FD_WRITE" -> Write
      [] op = "FD_OOB" -> Exception
      [] OTHER -> NoSlot

SlotOfEvent(op) ==
    CASE op \in {"FD_READ", "FD_CLOSE", "FD_ACCEPT"} -> Read
      [] op \in {"FD_WRITE", "FD_CONNECT"} -> Write
      [] op = "FD_OOB" -> Exception
      [] OTHER -> NoSlot

\* The error code of the message is not looked at.
Dropped_IgnoresError(err) == ~m_postman

\* if (err) return; if (!m_postman) return;
Dropped(err) == err # 0 \/ ~m_postman

handleSocketMessage(sockId, err, op) ==
    IF Dropped(err)
    THEN UNCHANGED <<m_notifiers, delivered>>
    ELSE LET map == MapIndex(m_notifiers, sockId)
             notifierSet == map[sockId]
             slot == SlotOfEvent(op)
         IN  /\ m_notifiers' = map
             /\ delivered' = IF slot # NoSlot /\ notifierSet[slot] # nullptr
                             THEN Append(delivered, notifierSet[slot])
                             ELSE delivered

(***************************************************************************)
(* Win32PlatformEventLoop::messageWindowProc, reached through              *)
(* DispatchMessage: every message but WM_KD_SOCKETEVENT goes to            *)
(* DefWindowProc.                                                          *)
(***************************************************************************)
messageWindowProc(msg) ==
    IF msg.message = WM_KD_SOCKETEVENT
    THEN /\ handled' = <<"TranslateMessage", "DispatchMessage", "handleSocketMessage">>
         /\ handleSocketMessage(msg.wParam, msg.error, msg.event)
    ELSE /\ handled' = <<"TranslateMessage", "DispatchMessage", "DefWindowProc">>
         /\ UNCHANGED <<m_notifiers, delivered>>

\* The if (hasMessage) block of waitForEvents.  Its WM_QUIT branch is empty
\* (a TODO comment); any other message goes to TranslateMessage and then to
\* DispatchMessage, which calls the window procedure.
DispatchMessage(msg) ==
    IF msg.message = WM_QUIT
    THEN /\ handled' = <<>>
         /\ UNCHANGED <<m_notifiers, delivered>>
    ELSE messageWindowProc(msg)

(***************************************************************************)
(* Win32PlatformEventLoop::waitForEvents.  The loop thread runs it in      *)
(* three steps, between which other threads and the operating system act:  *)
(* the call up to the first PeekMessage (and the dispatch of what it       *)
(* found), the return of MsgWaitForMultipleObjects, and the rest.          *)
(***************************************************************************)
\* PeekMessage(&msg, 0, 0, 0, PM_REMOVE): whether a message is there.
PeekMessage == msgQueue # <<>>

\* return: the locals of the call are gone.
Return ==
    /\ pc' = "idle"
    /\ timeout' = 0
    /\ waitRet' = NoWaitRet

\* A second message removed with the first and never dispatched.
HasMessage_TakesTwo ==
    /\ msgQueue' = IF Len(msgQueue) > 1 THEN Tail(Tail(msgQueue)) ELSE Tail(msgQueue)
    /\ dispatched' = <<Head(msgQueue)>>
    /\ DispatchMessage(Head(msgQueue))

\* The newest message taken instead of the oldest.
HasMessage_TakesLast ==
    /\ msgQueue' = SubSeq(msgQueue, 1, Len(msgQueue) - 1)
    /\ dispatched' = <<msgQueue[Len(msgQueue)]>>
    /\ DispatchMessage(msgQueue[Len(msgQueue)])

\* hasMessage after a PeekMessage that found a message, and the
\* if (hasMessage) block: the message is removed and dispatched.
HasMessage ==
    /\ msgQueue' = Tail(msgQueue)
    /\ dispatched' = <<Head(msgQueue)>>
    /\ DispatchMessage(Head(msgQueue))

\* The call, its first PeekMessage, and the dispatch when a message was there.
waitForEvents(t) ==
    /\ pc = "idle"
    /\ queueAtCall' = msgQueue
    /\ IF PeekMessage
       THEN /\ HasMessage
            /\ UNCHANGED <<pc, timeout, waitRet>>
       ELSE /\ pc' = "wait"
            /\ timeout' = t
            /\ dispatched' = <<>>
            /\ handled' = <<>>
            /\ UNCHANGED <<msgQueue, waitRet, m_notifiers, delivered>>
    /\ lastCall' = NoCall
    /\ UNCHANGED <<m_wakeUpEvent, signaled, m_postman, subscription, accepted, released, posted, calls>>
    /\ UNCHANGED guiVars

\* The wake up event not passed to the wait.
nCount_NoHandle == 0

\* The number of handles waitForEvents passes to MsgWaitForMultipleObjects.
nCount == IF m_wakeUpEvent THEN 1 ELSE 0

\* INFINITE is the DWORD 0xFFFFFFFF, written here as the 32-bit value read signed.
INFINITE == -1

\* Every timeout that is not positive turned into INFINITE.
dwTimeout_PollIsInfinite == IF timeout <= 0 THEN INFINITE ELSE timeout

\* const DWORD dwTimeout = timeout == -1 ? INFINITE : timeout
dwTimeout == IF timeout = -1 THEN INFINITE ELSE timeout

\* MsgWaitForMultipleObjects(nCount, pHandles, FALSE, dwTimeout, QS_ALLINPUT)
\* returns: the index of the signaled handle, or nCount for input in the
\* queue, or WAIT_TIMEOUT once a finite timeout has elapsed.
MsgWaitForMultipleObjects ==
    /\ pc = "wait"
    /\ \/ /\ nCount = 1 /\ signaled
          /\ waitRet' = WAIT_OBJECT_0
       \/ /\ ~(nCount = 1 /\ signaled)
          /\ msgQueue # <<>>
          /\ waitRet' = WAIT_OBJECT_0 + nCount
       \/ /\ ~(nCount = 1 /\ signaled)
          /\ msgQueue = <<>>
          /\ dwTimeout # INFINITE
          /\ waitRet' = WAIT_TIMEOUT
    /\ pc' = "waited"
    /\ UNCHANGED <<m_wakeUpEvent, signaled, m_postman, m_notifiers, subscription, msgQueue,
                   timeout, queueAtCall, dispatched, handled, accepted, released, lastCall, delivered, posted, calls>>
    /\ UNCHANGED guiVars

\* ResetEvent(m_wakeUpEvent)
ResetEvent == signaled' = FALSE

\* waitRet == WAIT_OBJECT_0 with a wake up event: reset it and return.
WakeUpEventSignaled ==
    /\ pc = "waited"
    /\ waitRet = WAIT_OBJECT_0
    /\ m_wakeUpEvent
    /\ ResetEvent
    /\ Return
    /\ UNCHANGED <<m_wakeUpEvent, m_postman, m_notifiers, subscription, msgQueue,
                   queueAtCall, dispatched, handled, accepted, released, lastCall, delivered, posted, calls>>
    /\ UNCHANGED guiVars

\* waitRet == WAIT_OBJECT_0 without a wake up event: assert(m_wakeUpEvent)
\* fails.  A build with assertions aborts; a build without them calls
\* ResetEvent on the null handle, which changes nothing, and returns.
AssertWakeUpEventFails ==
    /\ pc = "waited"
    /\ waitRet = WAIT_OBJECT_0
    /\ ~m_wakeUpEvent
    /\ \/ /\ pc' = "aborted"
          /\ UNCHANGED <<timeout, waitRet>>
       \/ Return
    /\ UNCHANGED <<m_wakeUpEvent, signaled, m_postman, m_notifiers, subscription, msgQueue,
                   queueAtCall, dispatched, handled, accepted, released, lastCall, delivered, posted, calls>>
    /\ UNCHANGED guiVars

\* The wake up event reset on this path too.
PeekAfterWait_ResetsEvent ==
    /\ pc = "waited"
    /\ waitRet # WAIT_OBJECT_0
    /\ IF PeekMessage
       THEN HasMessage
       ELSE UNCHANGED <<msgQueue, dispatched, handled, m_notifiers, delivered>>
    /\ signaled' = FALSE
    /\ Return
    /\ UNCHANGED <<m_wakeUpEvent, m_postman, subscription, queueAtCall, accepted, released,
                   lastCall, posted, calls>>
    /\ UNCHANGED guiVars

\* Any other waitRet: PeekMessage again, dispatch what it finds, return.
PeekAfterWait ==
    /\ pc = "waited"
    /\ waitRet # WAIT_OBJECT_0
    /\ IF PeekMessage
       THEN HasMessage
       ELSE UNCHANGED <<msgQueue, dispatched, handled, m_notifiers, delivered>>
    /\ Return
    /\ UNCHANGED <<m_wakeUpEvent, signaled, m_postman, subscription, queueAtCall, accepted, released,
                   lastCall, posted, calls>>
    /\ UNCHANGED guiVars

(***************************************************************************)
(* Win32PlatformEventLoop::wakeUp, from any thread.                        *)
(***************************************************************************)
\* SetEvent(m_wakeUpEvent)
SetEvent == signaled' = TRUE

wakeUp ==
    /\ pc # "aborted"
    /\ IF m_wakeUpEvent THEN SetEvent ELSE UNCHANGED signaled
    /\ UNCHANGED <<m_wakeUpEvent, m_postman, m_notifiers, subscription, msgQueue, pc, timeout,
                   waitRet, queueAtCall, dispatched, handled, accepted, released, lastCall, delivered, posted, calls>>
    /\ UNCHANGED guiVars

(***************************************************************************)
(* The environment posts messages.                                         *)
(***************************************************************************)
\* WSAGETSELECTERROR values of the posted socket messages: 0, or a failure code
\* on the events that report a failed connection attempt or a reset connection.
SelectErrors(op) == IF op \in {"FD_CONNECT", "FD_CLOSE"} THEN {0, 10061} ELSE {0}

Post(msg) ==
    /\ pc # "aborted"
    /\ calls + posted < MaxEvents
    /\ Len(msgQueue) < MaxQueue
    /\ msgQueue' = Append(msgQueue, msg)
    /\ posted' = posted + 1
    /\ UNCHANGED <<m_wakeUpEvent, signaled, m_postman, m_notifiers, subscription, pc, timeout,
                   waitRet, queueAtCall, dispatched, handled, accepted, released, lastCall, delivered, calls>>
    /\ UNCHANGED guiVars

\* Winsock posts WM_KD_SOCKETEVENT for an event the socket is subscribed to.
PostSocketMessage(sockId, op, err) ==
    /\ op \in subscription[sockId]
    /\ Post([message |-> WM_KD_SOCKETEVENT, wParam |-> sockId, error |-> err, event |-> op])

\* Any other message: WM_QUIT from PostQuitMessage, a timer message.
PostThreadMessage(message) ==
    Post([message |-> message, wParam |-> 0, error |-> 0, event |-> ""])

\* The timeouts the application passes: unbounded, a poll, a finite wait.
Timeouts == {-1, 0, 100}

Next ==
    \/ \E notifier \in Notifiers \cup {nullptr}, ok \in BOOLEAN, okRestore \in BOOLEAN :
          registerNotifier(notifier, ok, okRestore)
    \/ \E notifier \in Notifiers \cup {nullptr}, ok \in BOOLEAN : unregisterNotifier(notifier, ok)
    \/ \E postman \in BOOLEAN : setPostman(postman)
    \/ \E t \in Timeouts : waitForEvents(t)
    \/ MsgWaitForMultipleObjects
    \/ WakeUpEventSignaled
    \/ AssertWakeUpEventFails
    \/ PeekAfterWait
    \/ wakeUp
    \/ \E sockId \in Sockets, op \in FD_EVENTS : \E err \in SelectErrors(op) : PostSocketMessage(sockId, op, err)
    \/ \E message \in {WM_QUIT, WM_TIMER} : PostThreadMessage(message)

Spec == Init /\ [][Next]_vars

(***************************************************************************)
(* An application that only registers and unregisters notifiers.           *)
(***************************************************************************)
NextRegistry ==
    \/ \E notifier \in Notifiers \cup {nullptr}, ok \in BOOLEAN, okRestore \in BOOLEAN :
          registerNotifier(notifier, ok, okRestore)
    \/ \E notifier \in Notifiers \cup {nullptr}, ok \in BOOLEAN : unregisterNotifier(notifier, ok)

RegistrySpec == Init /\ [][NextRegistry]_vars

(***************************************************************************)
(* An application whose notifiers are all on socket 0.                     *)
(***************************************************************************)
NotifiersOfSocket0 == {notifier \in Notifiers : notifier.fd = 0}

NextDispatch ==
    \/ \E notifier \in NotifiersOfSocket0, ok \in BOOLEAN, okRestore \in BOOLEAN :
          registerNotifier(notifier, ok, okRestore)
    \/ \E notifier \in NotifiersOfSocket0, ok \in BOOLEAN : unregisterNotifier(notifier, ok)
    \/ \E postman \in BOOLEAN : setPostman(postman)
    \/ \E t \in Timeouts : waitForEvents(t)
    \/ MsgWaitForMultipleObjects
    \/ WakeUpEventSignaled
    \/ AssertWakeUpEventFails
    \/ PeekAfterWait
    \/ wakeUp
    \/ \E op \in FD_EVENTS : \E err \in SelectErrors(op) : PostSocketMessage(0, op, err)
    \/ \E message \in {WM_QUIT, WM_TIMER} : PostThreadMessage(message)

DispatchSpec == Init /\ [][NextDispatch]_vars

(***************************************************************************)
(* An application with one read notifier that waits, is woken and is sent  *)
(* messages.  The loop thread is scheduled: a call of waitForEvents that   *)
(* can take its next step takes it.                                        *)
(***************************************************************************)
NextWait ==
    \/ \E ok \in BOOLEAN : registerNotifier([id |-> 1, fd |-> 0, type |-> Read], ok, TRUE)
    \/ setPostman(TRUE)
    \/ \E t \in Timeouts : waitForEvents(t)
    \/ MsgWaitForMultipleObjects
    \/ WakeUpEventSignaled
    \/ AssertWakeUpEventFails
    \/ PeekAfterWait
    \/ wakeUp
    \/ \E op \in {"FD_READ", "FD_CLOSE"} : \E err \in SelectErrors(op) : PostSocketMessage(0, op, err)
    \/ \E message \in {WM_QUIT, WM_TIMER} : PostThreadMessage(message)

LoopThreadRuns ==
    /\ WF_vars(MsgWaitForMultipleObjects)
    /\ WF_vars(WakeUpEventSignaled)
    /\ WF_vars(AssertWakeUpEventFails)
    /\ WF_vars(PeekAfterWait)

WaitSpec == Init /\ [][NextWait]_vars /\ LoopThreadRuns

(***************************************************************************)
(* Win32GuiPlatformIntegration: the window classes it registers.           *)
(***************************************************************************)
\* The state of the event loop, which the integration's calls leave alone.
loopVars ==
    <<m_wakeUpEvent, signaled, m_postman, m_notifiers, subscription, msgQueue, pc,
      timeout, waitRet, queueAtCall, dispatched, handled, accepted, released, lastCall, delivered, posted, calls>>

\* The class names the application uses, as numbers.
MaxClassName == 3

ClassNames == 1 .. MaxClassName

\* m_windowClasses.find(className) != m_windowClasses.end()
alreadyRegistered(className) == className \in m_windowClasses

\* atom != 0 after RegisterClassEx(&wc): the OS refuses a class it already has,
\* and may refuse any other (ok is FALSE).
RegisterClassEx(className, ok) == ok /\ className \notin osClasses

\* UnregisterClass(name, appInstance) != 0: the OS refuses a class it does not
\* have, and may refuse one it has, e.g. while a window of it exists (ok is FALSE).
UnregisterClass(name, ok) == ok /\ name \in osClasses

registerWindowClass(className, ok) ==
    /\ IF alreadyRegistered(className)
       THEN /\ lastGuiCall' = GuiReturned("registerWindowClass", TRUE, className, {})
            /\ UNCHANGED <<m_windowClasses, osClasses, succeeded>>
       ELSE LET atom == RegisterClassEx(className, ok)
            IN  /\ osClasses' = IF atom THEN osClasses \cup {className} ELSE osClasses
                /\ succeeded' = IF atom THEN succeeded \cup {className} ELSE succeeded
                /\ m_windowClasses' = m_windowClasses \cup {className}
                /\ lastGuiCall' = GuiReturned("registerWindowClass", atom, className, {className})
    /\ UNCHANGED loopVars

\* oks: the classes the OS lets go of.  Also what the destructor does.
unregisterWindowClasses(oks) ==
    /\ LET unregistered == {name \in m_windowClasses : UnregisterClass(name, name \in oks)}
       IN  osClasses' = osClasses \ unregistered
    /\ m_windowClasses' = {}
    /\ succeeded' = {}
    /\ lastGuiCall' = GuiReturned("unregisterWindowClasses", FALSE, NoClassName, m_windowClasses)
    /\ UNCHANGED loopVars

NextClasses ==
    \/ \E className \in ClassNames, ok \in BOOLEAN : registerWindowClass(className, ok)
    \/ \E oks \in SUBSET m_windowClasses : unregisterWindowClasses(oks)

ClassSpec == Init /\ [][NextClasses]_vars

(***************************************************************************)
(* What the claims speak of.                                               *)
(***************************************************************************)
\* The notifier in a slot of the registry, null when the descriptor has no record.
Slot(map, fd, type) == IF fd \in DOMAIN map THEN map[fd][type] ELSE nullptr

\* This step is the call op(notifier) of the registry.
IsCall(op, notifier) ==
    /\ calls' = calls + 1
    /\ lastCall'.op = op
    /\ lastCall'.notifier = notifier

\* The interest kind a low-level condition belongs to, as the specification gives it.
KindOfCondition(op) ==
    CASE op \in {"FD_READ", "FD_CLOSE", "FD_ACCEPT"} -> Read
      [] op \in {"FD_WRITE", "FD_CONNECT"} -> Write
      [] op = "FD_OOB" -> Exception

\* msg is an error-free readiness message for (fd, kind).
IsReadiness(msg, fd, kind) ==
    /\ msg.message = WM_KD_SOCKETEVENT
    /\ msg.wParam = fd
    /\ msg.error = 0
    /\ KindOfCondition(msg.event) = kind

\* This step removes the head of the message queue and dispatches it.
DispatchesHead ==
    /\ msgQueue # <<>>
    /\ msgQueue' = Tail(msgQueue)

\* registerNotifier(B) has just been rejected because (B.fd, B.type) is taken.
DuplicateJustRejected(B) ==
    /\ lastCall.op = "register"
    /\ lastCall.notifier = B
    /\ ~lastCall.ret
    /\ lastCall.selects = <<>>
    /\ B.fd >= 0

\* C1: when a notifier A occupies slot (d, k), registerNotifier(B) for any B with
\* the same d and k returns false and leaves the registry as it was; a readiness
\* message for (d, k) dispatched next is delivered once, to A.
C1_DuplicateRegistrationRejected ==
    [][/\ LET B == lastCall'.notifier
          IN  (IsCall("register", B) /\ B.fd >= 0 /\ Slot(m_notifiers, B.fd, B.type) # nullptr)
                 => (~lastCall'.ret /\ m_notifiers' = m_notifiers)
       /\ LET B == lastCall.notifier
          IN  (/\ DuplicateJustRejected(B)
               /\ m_postman
               /\ DispatchesHead
               /\ IsReadiness(Head(msgQueue), B.fd, B.type))
                 => delivered' = Append(delivered, Slot(m_notifiers, B.fd, B.type))]_vars

C1_Witness ==
    \E B \in Notifiers :
        /\ DuplicateJustRejected(B)
        /\ Slot(m_notifiers, B.fd, B.type) \notin {nullptr, B}
        /\ \E t \in NotificationTypes \ {B.type} : Slot(m_notifiers, B.fd, t) # nullptr
        /\ m_postman
        /\ msgQueue # <<>>
        /\ IsReadiness(Head(msgQueue), B.fd, B.type)

\* C2: unregisterNotifier with a notifier that was never registered returns
\* false and leaves the number of descriptors in the registry what it was.
C2_UnregisterNeverRegistered ==
    [][LET n == lastCall'.notifier
       IN  (IsCall("unregister", n) /\ n # nullptr /\ n \notin accepted)
              => /\ ~lastCall'.ret
                 /\ Cardinality(DOMAIN m_notifiers') = Cardinality(DOMAIN m_notifiers)]_vars

\* registerNotifier(n) has just returned after its subscribe call failed.
SubscribeJustFailed ==
    /\ lastCall.op = "register"
    /\ lastCall.selects # <<>>
    /\ ~lastCall.selects[1].result

BeforeRegistration ==
    LET n == lastCall.notifier
    IN  IF lastCall.inserted
        THEN MapErase(m_notifiers, n.fd)
        ELSE [m_notifiers EXCEPT ![n.fd] = [@ EXCEPT ![n.type] = nullptr]]

\* C10: registering a notifier as the only interest on a descriptor and then
\* unregistering it returns true both times, leaves the descriptor absent from
\* the registry, asks for the empty subscription, and leaves the registry equal
\* to the registry before the registration.
C10_RegisterUnregisterRestoresRegistry ==
    [][LET n == lastCall.notifier
       IN  (/\ lastCall.op = "register"
            /\ lastCall.ret
            /\ \A t \in NotificationTypes \ {n.type} : Slot(m_notifiers, n.fd, t) = nullptr
            /\ IsCall("unregister", n))
              => /\ lastCall'.ret
                 /\ n.fd \notin DOMAIN m_notifiers'
                 /\ Len(lastCall'.selects) = 1
                 /\ lastCall'.selects[1].events = {}
                 /\ m_notifiers' = BeforeRegistration]_vars

\* The waitForEvents call in progress is blocked in, or has come out of, the
\* combined wait.
InWait == pc \in {"wait", "waited"}

\* C4: a wakeUp() while waitForEvents is in its wait, or before it enters it,
\* makes the wait end by the wake up event (not by the timeout, not by a
\* message) and the call return, whatever the timeout, -1 included.
C4_WakeUpUnblocksWait ==
    /\ [][(pc = "wait" /\ pc' = "waited" /\ m_wakeUpEvent /\ signaled)
             => waitRet' = WAIT_OBJECT_0]_vars
    /\ (InWait /\ m_wakeUpEvent /\ signaled) ~> (pc = "idle")

\* An unbounded wait on an empty queue ended by the wake up event.
C4_Witness ==
    /\ pc = "waited"
    /\ waitRet = WAIT_OBJECT_0
    /\ timeout = -1
    /\ msgQueue = <<>>
    /\ m_wakeUpEvent
    /\ signaled

\* C5: the wake up event, once set, stays set through waitForEvents calls that
\* dispatch a pending message or time out; only a call whose wait ended by the
\* event resets it, and a call that finds the queue empty while the event is
\* set has its wait ended by the event.
C5_WakeUpNeverLost ==
    /\ [][(signaled /\ ~signaled')
             => (pc = "waited" /\ waitRet = WAIT_OBJECT_0 /\ pc' = "idle")]_vars
    /\ (pc = "wait" /\ signaled) ~> (pc = "waited" /\ waitRet = WAIT_OBJECT_0)

\* The event still set after a call that returned by dispatching a message.
C5_Witness ==
    /\ signaled
    /\ pc = "idle"
    /\ Len(queueAtCall) >= 1
    /\ Len(dispatched) = 1

\* C6: a waitForEvents call removes at most one message: of the n messages
\* pending when it started, the last n-1 at least are still at the front of the
\* queue, in their order.
C6_AtMostOneMessagePerCall ==
    /\ Len(dispatched) <= 1
    /\ LET n == Len(queueAtCall)
           k == Len(dispatched)
       IN  n >= 1 => /\ Len(msgQueue) >= n - k
                     /\ SubSeq(msgQueue, 1, n - k) = SubSeq(queueAtCall, k + 1, n)

\* A call that found three messages has returned with one dispatched.
C6_Witness ==
    /\ pc = "idle"
    /\ Len(queueAtCall) = 3
    /\ queueAtCall[2] # queueAtCall[3]
    /\ Len(dispatched) = 1
    /\ Len(msgQueue) = 2

\* This step is one of a waitForEvents(0) call: its start or a later step.
PollStep ==
    \/ pc = "idle" /\ pc' = "wait" /\ timeout' = 0
    \/ InWait /\ timeout = 0 /\ pc' # pc

\* C7: every waitForEvents call with a timeout >= 0 comes to an end (the process
\* aborting on the failed assertion, which takes a message to arrive, is an end
\* too); a waitForEvents(0) call that never sees a message or the wake up event
\* dispatches nothing and changes neither the registry nor the event.
C7_PollTerminates ==
    /\ [][(PollStep /\ msgQueue = <<>> /\ ~signaled)
             => /\ m_notifiers' = m_notifiers
                /\ signaled' = signaled
                /\ delivered' = delivered
                /\ dispatched' = <<>>
                /\ msgQueue' = <<>>]_vars
    /\ (InWait /\ timeout >= 0) ~> (pc \in {"idle", "aborted"})

\* A poll timed out on an empty queue with the wake up event clear.
C7_Witness ==
    /\ pc = "waited"
    /\ waitRet = WAIT_TIMEOUT
    /\ timeout = 0
    /\ msgQueue = <<>>
    /\ ~signaled

C9_NoDeliveryAfterUnregister ==
    [][/\ \A i \in (Len(delivered) + 1) .. Len(delivered') : delivered'[i] \notin released
       /\ LET msg == Head(msgQueue)
          IN  (/\ DispatchesHead
               /\ msg.message = WM_KD_SOCKETEVENT
               /\ Slot(m_notifiers, msg.wParam, KindOfCondition(msg.event)) = nullptr)
                 => delivered' = delivered]_vars

\* A message for the slot of an unregistered notifier was dispatched after
\* another notifier was registered in that slot: the event went to the other one.
C9_Witness ==
    /\ Len(dispatched) = 1
    /\ dispatched[1].message = WM_KD_SOCKETEVENT
    /\ dispatched[1].error = 0
    /\ Len(delivered) = 1
    /\ \E o \in released :
          /\ o.fd = dispatched[1].wParam
          /\ o.type = KindOfCondition(dispatched[1].event)
          /\ delivered[1] # o
          /\ Slot(m_notifiers, o.fd, o.type) = delivered[1]
          /\ posted = 1

\* C11: registerNotifier with a null notifier or one whose descriptor is
\* negative returns false, leaves the registry (its keys included) as it was
\* and makes no WSAAsyncSelect call.
C11_InvalidNotifierRefused ==
    [][LET n == lastCall'.notifier
       IN  (IsCall("register", n) /\ (n = nullptr \/ n.fd < 0))
              => /\ ~lastCall'.ret
                 /\ m_notifiers' = m_notifiers
                 /\ DOMAIN m_notifiers' = DOMAIN m_notifiers
                 /\ lastCall'.selects = <<>>
                 /\ subscription' = subscription]_vars

\* A notifier with a negative descriptor was refused while the registry held
\* a registration.
C11_Witness ==
    /\ lastCall.op = "register"
    /\ lastCall.notifier.fd < 0
    /\ ~lastCall.ret
    /\ \E fd \in DOMAIN m_notifiers : ~isEmpty(m_notifiers[fd])

\* The waitForEvents call that last returned removed a socket message that
\* carried an error code.
ErrorMessageJustDropped ==
    /\ Len(dispatched) = 1
    /\ dispatched[1].message = WM_KD_SOCKETEVENT
    /\ dispatched[1].error # 0

\* C12: a socket message with a nonzero error code, or one dispatched while no
\* postman is set, delivers nothing and leaves the registry and the wake up
\* event as they were, and the call returns; an error-free message dispatched
\* by the call after one that dropped an error message is delivered.
C12_ErrorOrNoPostmanDropped ==
    [][LET msg == Head(msgQueue)
       IN  /\ (/\ DispatchesHead
               /\ msg.message = WM_KD_SOCKETEVENT
               /\ (msg.error # 0 \/ ~m_postman))
                 => /\ delivered' = delivered
                    /\ m_notifiers' = m_notifiers
                    /\ signaled' = signaled
                    /\ pc' = "idle"
           /\ (/\ ErrorMessageJustDropped
               /\ DispatchesHead
               /\ m_postman
               /\ msg.message = WM_KD_SOCKETEVENT
               /\ msg.error = 0
               /\ Slot(m_notifiers, msg.wParam, KindOfCondition(msg.event)) # nullptr)
                 => Len(delivered') = Len(delivered) + 1]_vars

\* With a postman set and the Read slot occupied, a call removed an FD_CLOSE
\* message carrying an error and delivered nothing; an error-free message is next.
C12_Witness ==
    /\ ErrorMessageJustDropped
    /\ m_postman
    /\ Slot(m_notifiers, dispatched[1].wParam, KindOfCondition(dispatched[1].event)) # nullptr
    /\ delivered = <<>>
    /\ pc = "idle"
    /\ msgQueue # <<>>
    /\ Head(msgQueue).message = WM_KD_SOCKETEVENT
    /\ Head(msgQueue).error = 0

\* C13: unregisterNotifier on an occupied slot returns true and empties the
\* slot whether or not the WSAAsyncSelect call succeeds; the descriptor's other
\* slots stay as they were and its record is removed when it has become empty.
C13_UnregisterIsBestEffort ==
    [][LET n == lastCall'.notifier
       IN  (IsCall("unregister", n) /\ n # nullptr /\ Slot(m_notifiers, n.fd, n.type) # nullptr)
              => /\ lastCall'.ret
                 /\ Slot(m_notifiers', n.fd, n.type) = nullptr
                 /\ \A t \in NotificationTypes \ {n.type} :
                       Slot(m_notifiers', n.fd, t) = Slot(m_notifiers, n.fd, t)
                 /\ (\A t \in NotificationTypes \ {n.type} : Slot(m_notifiers, n.fd, t) = nullptr)
                       => n.fd \notin DOMAIN m_notifiers']_vars

\* unregisterNotifier returned true after its WSAAsyncSelect call failed: the
\* record is gone and the socket is still subscribed.
C13_Witness ==
    /\ lastCall.op = "unregister"
    /\ lastCall.ret
    /\ Len(lastCall.selects) = 1
    /\ ~lastCall.selects[1].result
    /\ lastCall.notifier.fd \notin DOMAIN m_notifiers
    /\ subscription[lastCall.notifier.fd] # {}

(***************************************************************************)
(* An application that watches two sockets, one for reading and one for    *)
(* writing, and whose subscriptions all succeed.                           *)
(***************************************************************************)
NotifiersOfTwoSockets == {[id |-> 1, fd |-> 0, type |-> Read], [id |-> 1, fd |-> 1, type |-> Write]}

NextOrder ==
    \/ \E notifier \in NotifiersOfTwoSockets : registerNotifier(notifier, TRUE, TRUE)
    \/ setPostman(TRUE)
    \/ \E t \in Timeouts : waitForEvents(t)
    \/ MsgWaitForMultipleObjects
    \/ WakeUpEventSignaled
    \/ AssertWakeUpEventFails
    \/ PeekAfterWait
    \/ wakeUp
    \/ \E sockId \in Sockets, op \in FD_EVENTS : \E err \in SelectErrors(op) : PostSocketMessage(sockId, op, err)

OrderSpec == Init /\ [][NextOrder]_vars

\* C14: events are delivered in the order their messages entered the queue:
\* messages enter the queue at its tail and leave it at its head only, and a
\* step that delivers an event delivers exactly one, for the message it takes
\* from the head of the queue, to the notifier in that message's slot.
C14_DeliveryInQueueOrder ==
    [][/\ msgQueue' # msgQueue
          => \/ msgQueue # <<>> /\ msgQueue' = Tail(msgQueue)
             \/ Len(msgQueue') = Len(msgQueue) + 1
                /\ SubSeq(msgQueue', 1, Len(msgQueue)) = msgQueue
       /\ delivered' # delivered
          => /\ DispatchesHead
             /\ Head(msgQueue).message = WM_KD_SOCKETEVENT
             /\ delivered' = Append(delivered,
                                    Slot(m_notifiers, Head(msgQueue).wParam,
                                         KindOfCondition(Head(msgQueue).event)))]_vars

\* Of two deliverable messages for different sockets found in the queue, the
\* first has been delivered, after a wakeUp, and the second is still waiting.
C14_Witness ==
    /\ Len(queueAtCall) = 2
    /\ IsReadiness(queueAtCall[1], 1, Write)
    /\ IsReadiness(queueAtCall[2], 0, Read)
    /\ dispatched = <<queueAtCall[1]>>
    /\ msgQueue = <<queueAtCall[2]>>
    /\ Slot(m_notifiers, 0, Read) # nullptr
    /\ delivered = <<Slot(m_notifiers, 1, Write)>>
    /\ delivered[1] # nullptr
    /\ signaled

\* C15: every record in the registry has an occupied slot: no record whose
\* three slots are all empty is left in m_notifiers.
C15_NoEmptyRecord ==
    \A fd \in DOMAIN m_notifiers : ~isEmpty(m_notifiers[fd])

\* C16: only registerNotifier and unregisterNotifier change the registry: a step
\* of waitForEvents (the dispatch of a socket message included) or of wakeUp
\* leaves m_notifiers, its keys included, as it was.
C16_OnlyRegistryCallsMutate ==
    [][calls' = calls
          => /\ m_notifiers' = m_notifiers
             /\ DOMAIN m_notifiers' = DOMAIN m_notifiers]_vars

\* C20: unregisterNotifier(B) does not remove another notifier A: when A is in
\* the slot of B's descriptor and type and B is not A, the call returns false
\* and A stays in the slot; a slot's notifier leaves it only in an
\* unregisterNotifier call made with that notifier.
C20_UnregisterKeepsOtherNotifier ==
    [][/\ LET B == lastCall'.notifier
              A == Slot(m_notifiers, B.fd, B.type)
          IN  (IsCall("unregister", B) /\ B # nullptr /\ A # nullptr /\ A # B)
                 => /\ ~lastCall'.ret
                    /\ Slot(m_notifiers', B.fd, B.type) = A
       /\ \A fd \in DOMAIN m_notifiers : \A t \in NotificationTypes :
             (m_notifiers[fd][t] # nullptr /\ Slot(m_notifiers', fd, t) # m_notifiers[fd][t])
                => IsCall("unregister", m_notifiers[fd][t])]_vars

\* This step is the start of a waitForEvents call that finds a message in the
\* queue.
CallFindsMessage ==
    /\ pc = "idle"
    /\ msgQueue # <<>>
    /\ queueAtCall' = msgQueue
    /\ UNCHANGED <<calls, posted, signaled>>

\* This step is the loop thread leaving the state in which its wait has ended.
LeavesWait == pc = "waited" /\ pc' # pc

\* The wait of the call in progress ended because the wake up event was
\* signaled: any other end is the timeout or input in the queue.
WaitEndedBySignal == m_wakeUpEvent /\ waitRet = WAIT_OBJECT_0

\* C17: a call whose wait ended by the wake up event resets the event and
\* returns with the queue untouched and nothing dispatched, even when a
\* message is there; the message is dispatched by the next call.  A call whose
\* wait ended by input or by the timeout returns with the event as it is after
\* looking at the queue again and dispatching the message at its head when
\* there is one.
C17_SignalReturnDispatchesNothing ==
    [][/\ (LeavesWait /\ WaitEndedBySignal)
             => /\ ~signaled'
                /\ pc' = "idle"
                /\ msgQueue' = msgQueue
                /\ dispatched' = <<>>
                /\ handled' = <<>>
                /\ delivered' = delivered
       /\ CallFindsMessage
             => /\ msgQueue' = Tail(msgQueue)
                /\ dispatched' = <<Head(msgQueue)>>
       /\ (LeavesWait /\ ~WaitEndedBySignal)
             => /\ signaled' = signaled
                /\ pc' = "idle"
                /\ IF msgQueue # <<>>
                   THEN msgQueue' = Tail(msgQueue) /\ dispatched' = <<Head(msgQueue)>>
                   ELSE msgQueue' = msgQueue /\ dispatched' = <<>>]_vars

\* The events the specification has a descriptor subscribed to: those whose
\* interest kind has an occupied slot in the descriptor's record.
MaskOfRecord(map, fd) == {op \in FD_EVENTS : Slot(map, fd, KindOfCondition(op)) # nullptr}

\* Every socket is subscribed to the events of its record, to none without one.
SubscriptionMatchesRegistry(map, sub) == \A fd \in Sockets : sub[fd] = MaskOfRecord(map, fd)

\* registerNotifier(n) is called with a valid notifier for an empty slot.
PassesChecks(n) == n # nullptr /\ n.fd >= 0 /\ Slot(m_notifiers, n.fd, n.type) = nullptr

\* unregisterNotifier(n) is called for an occupied slot.
ClearsSlot(n) == n # nullptr /\ Slot(m_notifiers, n.fd, n.type) # nullptr

\* The WSAAsyncSelect calls of this step all succeeded.
AllSelectsSucceed == \A i \in 1 .. Len(lastCall'.selects) : lastCall'.selects[i].result

\* The events of the record of n's descriptor once n is in its slot.
MaskWith(n) == MaskOfRecord(m_notifiers, n.fd) \cup {op \in FD_EVENTS : KindOfCondition(op) = n.type}

\* C18 as stated: every registerNotifier that passes its checks and every
\* unregisterNotifier that clears a slot makes exactly one WSAAsyncSelect call,
\* for that descriptor, with the events of the record's occupied slots; and a
\* call whose WSAAsyncSelect calls succeed keeps every socket's subscription
\* equal to the events of its record.
C18_ExactlyOneSubscribeCall ==
    [][LET n == lastCall'.notifier
       IN  /\ (IsCall("register", n) /\ PassesChecks(n))
                 => /\ Len(lastCall'.selects) = 1
                    /\ lastCall'.selects[1].fd = n.fd
                    /\ lastCall'.selects[1].events = MaskWith(n)
           /\ (IsCall("unregister", n) /\ ClearsSlot(n))
                 => /\ Len(lastCall'.selects) = 1
                    /\ lastCall'.selects[1].fd = n.fd
                    /\ lastCall'.selects[1].events = MaskOfRecord(m_notifiers', n.fd)
           /\ (/\ calls' = calls + 1
               /\ SubscriptionMatchesRegistry(m_notifiers, subscription)
               /\ AllSelectsSucceed)
                 => SubscriptionMatchesRegistry(m_notifiers', subscription')]_vars

\* C18 amended: a registerNotifier that passes its checks makes one
\* WSAAsyncSelect call with the events of the record's occupied slots and, only
\* when that call fails, a second one with the events of the record as it was
\* before; an unregisterNotifier that clears a slot makes exactly one; and a
\* call whose WSAAsyncSelect calls succeed keeps every socket's subscription
\* equal to the events of its record.
C18_SubscribeCallsFollowRegistry ==
    [][LET n == lastCall'.notifier
           selects == lastCall'.selects
       IN  /\ (IsCall("register", n) /\ PassesChecks(n))
                 => /\ Len(selects) >= 1
                    /\ selects[1].fd = n.fd
                    /\ selects[1].events = MaskWith(n)
                    /\ IF selects[1].result
                       THEN Len(selects) = 1
                       ELSE /\ Len(selects) = 2
                            /\ selects[2].fd = n.fd
                            /\ selects[2].events = MaskOfRecord(m_notifiers, n.fd)
           /\ (IsCall("unregister", n) /\ ClearsSlot(n))
                 => /\ Len(selects) = 1
                    /\ selects[1].fd = n.fd
                    /\ selects[1].events = MaskOfRecord(m_notifiers', n.fd)
           /\ (/\ calls' = calls + 1
               /\ SubscriptionMatchesRegistry(m_notifiers, subscription)
               /\ AllSelectsSucceed)
                 => SubscriptionMatchesRegistry(m_notifiers', subscription')]_vars

\* A registration whose WSAAsyncSelect call failed asked again for the events
\* of the Write notifier registered before, and the subscription still matches
\* the registry.
C18_Witness ==
    /\ SubscribeJustFailed
    /\ Len(lastCall.selects) = 2
    /\ lastCall.selects[2].events = {"FD_WRITE", "FD_CONNECT"}
    /\ lastCall.selects[2].result
    /\ SubscriptionMatchesRegistry(m_notifiers, subscription)
    /\ \E fd \in Sockets : subscription[fd] = {"FD_WRITE", "FD_CONNECT"}

\* How many times a call passed its message to the function f.
TimesHandled(seq, f) == Cardinality({i \in 1 .. Len(seq) : seq[i] = f})

\* C19: a message that waitForEvents removes from the queue is handled within
\* that call: WM_QUIT closes the windows and goes neither to TranslateMessage
\* nor to DispatchMessage; any other message goes once to TranslateMessage and
\* once to DispatchMessage, and a socket message reaches handleSocketMessage
\* exactly once.
C19_RemovedMessageHandledOnce ==
    [][DispatchesHead
          => LET msg == Head(msgQueue)
             IN  /\ pc' = "idle"
                 /\ dispatched' = <<msg>>
                 /\ IF msg.message = WM_QUIT
                    THEN /\ TimesHandled(handled', "closeWindows") = 1
                         /\ TimesHandled(handled', "TranslateMessage") = 0
                         /\ TimesHandled(handled', "DispatchMessage") = 0
                    ELSE /\ TimesHandled(handled', "TranslateMessage") = 1
                         /\ TimesHandled(handled', "DispatchMessage") = 1
                         /\ TimesHandled(handled', "handleSocketMessage")
                               = IF msg.message = WM_KD_SOCKETEVENT THEN 1 ELSE 0]_vars

\* The call in progress has reached assert(m_wakeUpEvent): its wait returned
\* WAIT_OBJECT_0.
ReachedAssert == pc = "waited" /\ waitRet = WAIT_OBJECT_0

\* C21: whenever waitForEvents reaches its assertion, the wake up event
\* exists, also in a loop whose constructor could not create it; and in such
\* a loop a wait that ends with a message in the queue dispatches the message
\* at the head of the queue and returns.
C21_WakeUpEventAssertedExists ==
    /\ [](ReachedAssert => m_wakeUpEvent)
    /\ [][(LeavesWait /\ ~m_wakeUpEvent /\ msgQueue # <<>>)
             => /\ pc' = "idle"
                /\ msgQueue' = Tail(msgQueue)
                /\ dispatched' = <<Head(msgQueue)>>]_vars

\* This step is a call of the operation op of Win32GuiPlatformIntegration.
IsGuiCall(op) == guiVars' # guiVars /\ lastGuiCall'.op = op

\* C22: the tracked class names are exactly the names whose OS registration
\* succeeded; registerWindowClass returns true only for a class the OS has
\* registered, and a call for a name whose registration has not succeeded goes
\* to the OS again; unregisterWindowClasses passes to the OS only classes that
\* were registered and leaves the tracked set empty.
C22_TrackedClassesAreRegistered ==
    /\ [](m_windowClasses = succeeded)
    /\ [][/\ IsGuiCall("registerWindowClass")
                => LET className == lastGuiCall'.className
                   IN  /\ lastGuiCall'.ret => className \in osClasses'
                       /\ className \notin succeeded => lastGuiCall'.osCalls = {className}
          /\ IsGuiCall("unregisterWindowClasses")
                => /\ lastGuiCall'.osCalls \subseteq succeeded
                   /\ m_windowClasses' = {}]_vars

=============================================================================
